---------------------------- MODULE Spec2Model ----------------------------
(***************************************************************************)
(* Black-Scholes call pricing calculators of kysakhin/black-scholes:       *)
(*   src/components/default.js  (DefaultPage: useMemo result + chartData)  *)
(*   src/components/reverse.js  (BlackScholesCalculator: useEffect +       *)
(*                               generateSensitivityData)                  *)
(*                                                                         *)
(* A JavaScript number is modelled as a binary floating-point value        *)
(* [k, m, e]: k = "fin" is the number m * 2^e with an MANT-bit significand *)
(* (2^(MANT-1) <= |m| < 2^MANT, or m = 0 and e = 0), k = "inf" is          *)
(* +Infinity / -Infinity (m = 1 / -1), k = "nan" is NaN and k = "undef" is *)
(* the value undefined.  Results are truncated toward zero to MANT bits    *)
(* (IEEE binary64 rounds to nearest at 53 bits).  The range is binary64's: *)
(* a result of magnitude 2^1024 or more is an infinity, one below 2^-1074  *)
(* is 0 (the loss of precision of subnormal numbers is not modelled).      *)
(* TLC's integers are 32 bits wide, hence the limb-wise product and the    *)
(* bit-wise quotient.                                                      *)
(***************************************************************************)
EXTENDS Integers, Sequences, FiniteSets, TLC

(***************************************************************************)
(* State.                                                                  *)
(***************************************************************************)
VARIABLES
  page,               \* the component mounted: "default", "reverse" or "none"
  d_inputs,           \* default.js: inputs
  d_result,           \* default.js: result (the memo's value)
  d_chartData,        \* default.js: chartData (the memo's value)
  d_calls,            \* default.js: arguments of chartData's pricer calls
  d_crashed,          \* default.js: the render threw a TypeError
  r_inputs,           \* reverse.js: inputs
  r_result,           \* reverse.js: result
  r_sensitivityData,  \* reverse.js: sensitivityData
  r_sensitivityType,  \* reverse.js: sensitivityType
  r_calls,            \* reverse.js: arguments of the last sweep's pricer calls
  r_dirty,            \* reverse.js: the effect is due ([inputs, sensitivityType] changed)
  copy,               \* the file whose pricer a run of invocations uses, or "both"
  first,              \* the first invocation of the run (of both: default.js's)
  last,               \* the latest invocation after the first (of both: reverse.js's)
  cdf_x,              \* the argument normCDF is applied to
  cdf_out             \* what normCDF computed at cdf_x and at -cdf_x

uiVars ==
  <<page, d_inputs, d_result, d_chartData, d_calls, d_crashed, r_inputs,
    r_result, r_sensitivityData, r_sensitivityType, r_calls, r_dirty>>
callVars == <<copy, first, last>>
cdfVars == <<cdf_x, cdf_out>>
vars == <<uiVars, callVars, cdfVars>>

(***************************************************************************)
(* Numbers.                                                                *)
(***************************************************************************)
\* Bits of a significand.
MANT == 29
\* The limb base of the product, 2^15.
LIMB == 2^15
\* 2^30: the product of two limbs' range.
LIMB2 == 2^30

Abs(n) == IF n < 0 THEN -n ELSE n
Sgn(n) == IF n < 0 THEN -1 ELSE IF n > 0 THEN 1 ELSE 0

\* The number of bits of n, 0 <= n < 2^31 (0 for n = 0): the bits above
\* position w, then those of the rest, w halving from 16.
RECURSIVE BitLenFrom(_, _)
BitLenFrom(n, w) ==
  IF w = 0 THEN n
  ELSE IF n >= 2^w THEN w + BitLenFrom(n \div 2^w, w \div 2)
  ELSE BitLenFrom(n, w \div 2)
BitLen(n) == BitLenFrom(n, 16)

(***************************************************************************)
(* Values.                                                                 *)
(***************************************************************************)
Zero == [k |-> "fin", m |-> 0, e |-> 0]
NaN == [k |-> "nan", m |-> 0, e |-> 0]
Undefined == [k |-> "undef", m |-> 0, e |-> 0]
Inf(s) == [k |-> "inf", m |-> s, e |-> 0]

IsFin(a) == a.k = "fin"
IsNaN(a) == a.k \in {"nan", "undef"}
IsInf(a) == a.k = "inf"
IsZero(a) == a.k = "fin" /\ a.m = 0
Sign(a) == Sgn(a.m)

\* m * 2^e with m # 0 shifted by d bits, d the excess of m's length over MANT.
Norm(m, e, d) ==
  IF d > 0 THEN [k |-> "fin", m |-> Sgn(m) * (Abs(m) \div 2^d), e |-> e + d]
  ELSE [k |-> "fin", m |-> m * 2^(-d), e |-> e + d]

\* The finite value m * 2^e, 0 <= |m| < 2^31, normalised to MANT bits.
Fl(m, e) == IF m = 0 THEN Zero ELSE Norm(m, e, BitLen(Abs(m)) - MANT)

\* The range of a binary64 number: magnitudes below 2^MaxExp, and not below
\* 2^MinExp.
MaxExp == 1024
MinExp == -1074

\* The finite result v in binary64's range: overflow to an infinity,
\* underflow to 0.
Range(v) ==
  IF v.m = 0 THEN v
  ELSE IF v.e + MANT > MaxExp THEN Inf(Sgn(v.m))
  ELSE IF v.e + MANT <= MinExp THEN Zero
  ELSE v

\* An integer literal, |n| < 2^31.
Num(n) == Fl(n, 0)

FNeg(a) == [a EXCEPT !.m = -a.m]
FAbs(a) == [a EXCEPT !.m = Abs(a.m)]

\* |m| shifted right by d bits, truncated toward zero.
ShiftRight(m, d) == IF d > 30 THEN 0 ELSE Sgn(m) * (Abs(m) \div 2^d)

\* a + b for finite a, b.
AddFin(a, b) ==
  IF a.m = 0 THEN b
  ELSE IF b.m = 0 THEN a
  ELSE IF a.e >= b.e THEN Fl(a.m + ShiftRight(b.m, a.e - b.e), a.e)
  ELSE Fl(b.m + ShiftRight(a.m, b.e - a.e), b.e)

\* a + b.
FAdd(a, b) ==
  IF IsNaN(a) \/ IsNaN(b) THEN NaN
  ELSE IF IsInf(a) /\ IsInf(b) THEN (IF a.m = b.m THEN a ELSE NaN)
  ELSE IF IsInf(a) THEN a
  ELSE IF IsInf(b) THEN b
  ELSE Range(AddFin(a, b))

\* a - b.
FSub(a, b) == FAdd(a, FNeg(b))

\* The top MANT bits of the product hi * 2^30 + lo, shifted right by sh bits.
MulShift(s, hi, lo, e, sh) ==
  [k |-> "fin", m |-> s * (hi * 2^(30 - sh) + (lo \div 2^sh)), e |-> e + sh]

\* The product hh * 2^30 + mid * 2^15 + ll as hi * 2^30 + lo, low the part
\* below 2^30 with its carry.
MulCarry(s, hh, mid, low, e) ==
  MulShift(s, hh + (mid \div LIMB) + (low \div LIMB2), low % LIMB2, e,
           BitLen(hh + (mid \div LIMB) + (low \div LIMB2)) + 30 - MANT)

\* The product of ah * 2^15 + al and bh * 2^15 + bl by limbs.
MulLimbs(s, ah, al, bh, bl, e) ==
  MulCarry(s, ah * bh, ah * bl + al * bh,
           ((ah * bl + al * bh) % LIMB) * LIMB + al * bl, e)

\* a * b for finite nonzero a, b: the top MANT bits of the 2 MANT-bit product.
MulFin(a, b) ==
  MulLimbs(Sgn(a.m) * Sgn(b.m), Abs(a.m) \div LIMB, Abs(a.m) % LIMB,
           Abs(b.m) \div LIMB, Abs(b.m) % LIMB, a.e + b.e)

\* a * b.
FMul(a, b) ==
  IF IsNaN(a) \/ IsNaN(b) THEN NaN
  ELSE IF IsInf(a) \/ IsInf(b)
    THEN (IF IsZero(a) \/ IsZero(b) THEN NaN ELSE Inf(Sign(a) * Sign(b)))
  ELSE IF a.m = 0 \/ b.m = 0 THEN Zero
  ELSE Range(MulFin(a, b))

\* n >= 1 more bits of the long division by y: from <<q, r>> (quotient so
\* far, remainder) to <<q, r>>.  The n bits are produced half by half; once
\* the remainder is zero the bits left are zero.
RECURSIVE DivBits(_, _, _)
DivBits(qr, y, n) ==
  IF qr[2] = 0 THEN <<qr[1] * 2^n, 0>>
  ELSE IF n = 1
    THEN (IF 2 * qr[2] >= y THEN <<2 * qr[1] + 1, 2 * qr[2] - y>>
                            ELSE <<2 * qr[1], 2 * qr[2]>>)
  ELSE DivBits(DivBits(qr, y, n \div 2), y, n - (n \div 2))

\* ma / mb to bits fractional bits, with sign s and exponent e.
DivLong(s, ma, mb, e, bits) ==
  [k |-> "fin", m |-> s * DivBits(<<ma \div mb, ma % mb>>, mb, bits)[1],
   e |-> e - bits]

\* a / b for finite nonzero a, b: MANT bits of the quotient.
DivFin(a, b) ==
  DivLong(Sgn(a.m) * Sgn(b.m), Abs(a.m), Abs(b.m), a.e - b.e,
          IF Abs(a.m) >= Abs(b.m) THEN MANT - 1 ELSE MANT)

\* a / b.
FDiv(a, b) ==
  IF IsNaN(a) \/ IsNaN(b) THEN NaN
  ELSE IF IsInf(a) THEN (IF IsInf(b) THEN NaN
                         ELSE Inf(a.m * (IF Sign(b) < 0 THEN -1 ELSE 1)))
  ELSE IF IsInf(b) THEN Zero
  ELSE IF b.m = 0 THEN (IF a.m = 0 THEN NaN ELSE Inf(Sign(a)))
  ELSE IF a.m = 0 THEN Zero
  ELSE Range(DivFin(a, b))

\* a < b (false when either is NaN).
FLt(a, b) ==
  IF IsNaN(a) \/ IsNaN(b) THEN FALSE
  ELSE IF IsInf(a) /\ IsInf(b) THEN a.m < b.m
  ELSE Sign(FSub(a, b)) < 0
\* a <= b (false when either is NaN).
FLe(a, b) ==
  IF IsNaN(a) \/ IsNaN(b) THEN FALSE
  ELSE IF IsInf(a) /\ IsInf(b) THEN a.m <= b.m
  ELSE Sign(FSub(a, b)) <= 0
FGt(a, b) == FLt(b, a)

\* The decimal literal n / 10^k, as the source text writes it.
Dec(n, k) == FDiv(Num(n), Num(10^k))

\* floor(a) as an integer, for finite |a| < 2^30.
FloorInt(a) ==
  IF a.e >= 0 THEN a.m * 2^a.e
  ELSE IF -a.e > 30 THEN (IF a.m < 0 THEN -1 ELSE 0)
  ELSE (a.m - ((a.m % 2^(-a.e)))) \div 2^(-a.e)

\* a * 2^n.
Scale2(a, n) == IF a.m = 0 THEN a ELSE [a EXCEPT !.e = a.e + n]

\* ln 2 and 1 / ln 2.
Ln2 == Dec(693147180, 9)
InvLn2 == Dec(1442695040, 9)
\* sqrt(1/2), the split point of the logarithm's range reduction.
SqrtHalf == Dec(707106781, 9)
One == Num(1)
Half == Dec(5, 1)
\* Terms of the exponential's and of the logarithm's series.
ExpTerms == 9
LogTerms == 7

RECURSIVE Fact(_)
Fact(n) == IF n = 0 THEN 1 ELSE n * Fact(n - 1)
\* The coefficients 1/k! of the exponential's Taylor series.
ExpCoef == [k \in 0..ExpTerms |-> FDiv(One, Num(Fact(k)))]
\* The coefficients 1/(2k+1) of the series of atanh(w) / w in w^2.
LogCoef == [k \in 0..LogTerms |-> FDiv(One, Num(2 * k + 1))]

\* Horner's rule downward from coefficient k: acc is the value of
\* c[k] + f * (c[k+1] + f * (...)), and the result c[0] + f * (...).
RECURSIVE Horner(_, _, _, _)
Horner(c, f, k, acc) ==
  IF k = 0 \/ IsNaN(acc) THEN acc
  ELSE Horner(c, f, k - 1, FAdd(c[k - 1], FMul(f, acc)))

\* The arguments above which Math.exp overflows to Infinity and below which
\* it underflows to 0 (binary64).
ExpOverflow == Dec(70979, 2)
ExpUnderflow == Dec(-74514, 2)

\* e^f by the Taylor series, |f| <= ln 2 / 2.
ExpSeries(f) == Horner(ExpCoef, f, ExpTerms, ExpCoef[ExpTerms])

\* e^a = 2^pow * e^f with f = a - pow ln 2.
ExpScaled(a, pow) ==
  IF pow = 0 THEN ExpSeries(a)
  ELSE Scale2(ExpSeries(FSub(a, FMul(Num(pow), Ln2))), pow)

\* Math.exp(a), the power of two being round(a / ln 2).
Exp(a) ==
  IF IsNaN(a) THEN NaN
  ELSE IF FGt(a, ExpOverflow) THEN Inf(1)
  ELSE IF FLt(a, ExpUnderflow) THEN Zero
  ELSE ExpScaled(a, FloorInt(FAdd(FMul(a, InvLn2), Half)))

\* 2 atanh(w) by the series in w^2.
LogSeries(w) ==
  Scale2(FMul(w, Horner(LogCoef, FMul(w, w), LogTerms, LogCoef[LogTerms])), 1)

\* ln(z * 2^pow) = pow ln 2 + 2 atanh((z - 1) / (z + 1)).
LogScaled(z, pow) ==
  FAdd(FMul(Num(pow), Ln2), LogSeries(FDiv(FSub(z, One), FAdd(z, One))))

\* ln(half * 2^pow), 1/2 <= half < 1, reduced to sqrt(1/2) <= z < sqrt(2).
LogReduce(half, pow, below) ==
  LogScaled(IF below THEN Scale2(half, 1) ELSE half,
            IF below THEN pow - 1 ELSE pow)

\* Math.log(a): NaN below zero, -Infinity at zero.
Log(a) ==
  IF IsNaN(a) THEN NaN
  ELSE IF IsInf(a) THEN (IF a.m > 0 THEN a ELSE NaN)
  ELSE IF a.m < 0 THEN NaN
  ELSE IF a.m = 0 THEN Inf(-1)
  ELSE LogReduce([a EXCEPT !.e = -MANT], a.e + MANT,
                 FLt([a EXCEPT !.e = -MANT], SqrtHalf))

\* Newton's iteration y <- (y + a / y) / 2, n times.
RECURSIVE SqrtIter(_, _, _)
SqrtIter(a, y, n) ==
  IF n = 0 \/ IsNaN(y) THEN y
  ELSE SqrtIter(a, Scale2(FAdd(y, FDiv(a, y)), -1), n - 1)
SqrtSteps == 6

\* Math.sqrt(a): NaN below zero.
Sqrt(a) ==
  IF IsNaN(a) THEN NaN
  ELSE IF a.m < 0 THEN NaN
  ELSE IF IsInf(a) \/ a.m = 0 THEN a
  ELSE SqrtIter(a, Fl(1, (a.e + MANT - ((a.e + MANT) % 2)) \div 2), SqrtSteps)

(***************************************************************************)
(* normCDF (the same text in default.js and reverse.js, up to the name of  *)
(* the local and the form of the final branch).                            *)
(***************************************************************************)
\* The literals of normCDF.
CdfRate == Dec(2316419, 7)
CdfNorm == Dec(3989423, 7)
CdfB1 == Dec(3193815, 7)
CdfB2 == Dec(-3565638, 7)
CdfB3 == Dec(1781478, 6)
CdfB4 == Dec(-1821256, 6)
CdfB5 == Dec(1330274, 6)

\* normCDF's t without the absolute value: 1 / (1 + 0.2316419 * x).
D_tSigned(x) == FDiv(One, FAdd(One, FMul(CdfRate, x)))

\* default.js, normCDF: const t = 1 / (1 + 0.2316419 * Math.abs(x))
D_t(x) == FDiv(One, FAdd(One, FMul(CdfRate, FAbs(x))))

\* default.js, normCDF: const d = 0.3989423 * Math.exp((-x * x) / 2)
D_d(x) == FMul(CdfNorm, Exp(FDiv(FMul(FNeg(x), x), Num(2))))

\* default.js, normCDF:
\* 0.3193815 + t * (-0.3565638 + t * (1.781478 + t * (-1.821256 + t * 1.330274)))
D_poly(t) ==
  FAdd(CdfB1, FMul(t,
    FAdd(CdfB2, FMul(t,
      FAdd(CdfB3, FMul(t,
        FAdd(CdfB4, FMul(t, CdfB5))))))))

\* default.js, normCDF: d * t * (0.3193815 + t * (...))
D_product(d, t) == IF IsNaN(t) THEN NaN ELSE FMul(FMul(d, t), D_poly(t))

\* default.js, normCDF: the tail value prob at x.
D_prob(x) == D_product(D_d(x), D_t(x))

\* default.js, normCDF: if (x > 0) { prob = 1 - prob; } return prob
D_branch(x, prob) == IF FGt(x, Zero) THEN FSub(One, prob) ELSE prob
\* default.js: normCDF(x)
D_normCDF(x) == D_branch(x, D_prob(x))

\* reverse.js, normCDF: const t = 1 / (1 + 0.2316419 * Math.abs(x))
R_t(x) == FDiv(One, FAdd(One, FMul(CdfRate, FAbs(x))))

\* reverse.js, normCDF: const d = 0.3989423 * Math.exp((-x * x) / 2)
R_d(x) == FMul(CdfNorm, Exp(FDiv(FMul(FNeg(x), x), Num(2))))

\* reverse.js, normCDF:
\* 0.3193815 + t * (-0.3565638 + t * (1.781478 + t * (-1.821256 + t * 1.330274)))
R_poly(t) ==
  FAdd(CdfB1, FMul(t,
    FAdd(CdfB2, FMul(t,
      FAdd(CdfB3, FMul(t,
        FAdd(CdfB4, FMul(t, CdfB5))))))))

\* reverse.js, normCDF: d * t * (0.3193815 + t * (...))
R_product(d, t) == IF IsNaN(t) THEN NaN ELSE FMul(FMul(d, t), R_poly(t))

\* reverse.js, normCDF: the tail value p at x.
R_p(x) == R_product(R_d(x), R_t(x))

\* reverse.js, normCDF: return x > 0 ? 1 - p : p
R_branch(x, p) == IF FGt(x, Zero) THEN FSub(One, p) ELSE p
\* reverse.js: normCDF(x)
R_normCDF(x) == R_branch(x, R_p(x))

(***************************************************************************)
(* blackScholesCall.  The value is [ret, ops]: ret the returned value (the *)
(* number 0, or the six-field object) and ops the operations evaluated.    *)
(***************************************************************************)
\* The operations the normal path of blackScholesCall evaluates, in order
\* (both files): d1 (log, sqrt, division), d2 (sqrt), callPrice (normCDF,
\* exp, normCDF) and the record (normCDF, normCDF, exp).
NormalPathOps ==
  <<"log", "sqrt", "div", "sqrt", "normCDF", "exp", "normCDF",
    "normCDF", "normCDF", "exp">>

\* A guard with strict comparisons: T < 0 || sigma < 0.
D_guardStrict(T, sigma) == FLt(T, Zero) \/ FLt(sigma, Zero)

\* default.js: if (T <= 0 || sigma <= 0)
D_guard(T, sigma) == FLe(T, Zero) \/ FLe(sigma, Zero)

\* default.js: const d1 = (Math.log(S / K) + (r + 0.5 * sigma * sigma) * T)
\*                   / (sigma * Math.sqrt(T))
D_d1(S, K, T, r, sigma) ==
  FDiv(FAdd(Log(FDiv(S, K)),
            FMul(FAdd(r, FMul(FMul(Half, sigma), sigma)), T)),
       FMul(sigma, Sqrt(T)))

\* default.js: const d2 = d1 - sigma * Math.sqrt(T)
D_d2(d1, T, sigma) == FSub(d1, FMul(sigma, Sqrt(T)))

\* A call price that leaves the strike undiscounted:
\* S * normCDF(d1) - K * normCDF(d2).
D_callPriceUndiscounted(S, K, T, r, d1, d2) ==
  FSub(FMul(S, D_normCDF(d1)), FMul(K, D_normCDF(d2)))

\* default.js: const callPrice = S * normCDF(d1) - K * Math.exp(-r * T) * normCDF(d2)
D_callPrice(S, K, T, r, d1, d2) ==
  FSub(FMul(S, D_normCDF(d1)),
       FMul(FMul(K, Exp(FMul(FNeg(r), T))), D_normCDF(d2)))

\* default.js: return { premium: callPrice, d1: d1, d2: d2, Nd1: normCDF(d1),
\*                 Nd2: normCDF(d2), discountFactor: Math.exp(-r * T) }
D_return(S, K, T, r, d1, d2) ==
  [ret |-> [d1 |-> d1,
            d2 |-> d2,
            premium |-> D_callPrice(S, K, T, r, d1, d2),
            Nd1 |-> D_normCDF(d1),
            Nd2 |-> D_normCDF(d2),
            discountFactor |-> Exp(FMul(FNeg(r), T))],
   ops |-> NormalPathOps]

\* default.js: the statements of blackScholesCall after the guard: d1, then d2 from
\* it, then the rest from both.
D_fromD1(S, K, T, r, sigma, d1) ==
  D_return(S, K, T, r, d1, D_d2(d1, T, sigma))
D_normalPath(S, K, T, r, sigma) ==
  D_fromD1(S, K, T, r, sigma, D_d1(S, K, T, r, sigma))

\* A pricer that guards the prices as well:
\* if (T <= 0 || sigma <= 0 || S <= 0 || K <= 0) return 0.
D_pricesGuarded(S, K, T, r, sigma) ==
  IF D_guard(T, sigma) \/ FLe(S, Zero) \/ FLe(K, Zero)
  THEN [ret |-> Zero, ops |-> <<>>]
  ELSE D_normalPath(S, K, T, r, sigma)

\* default.js: blackScholesCall(S, K, T, r, sigma): if (T <= 0 || sigma <= 0)
\* return 0; then the normal path.
D_blackScholesCall(S, K, T, r, sigma) ==
  IF D_guard(T, sigma) THEN [ret |-> Zero, ops |-> <<>>]
  ELSE D_normalPath(S, K, T, r, sigma)

\* reverse.js: if (T <= 0 || sigma <= 0)
R_guard(T, sigma) == FLe(T, Zero) \/ FLe(sigma, Zero)

\* reverse.js: const d1 = (Math.log(S / K) + (r + (sigma * sigma) / 2) * T)
\*                   / (sigma * Math.sqrt(T))
R_d1(S, K, T, r, sigma) ==
  FDiv(FAdd(Log(FDiv(S, K)),
            FMul(FAdd(r, FDiv(FMul(sigma, sigma), Num(2))), T)),
       FMul(sigma, Sqrt(T)))

\* reverse.js: const d2 = d1 - sigma * Math.sqrt(T)
R_d2(d1, T, sigma) == FSub(d1, FMul(sigma, Sqrt(T)))

\* reverse.js: const callPrice = S * normCDF(d1) - K * Math.exp(-r * T) * normCDF(d2)
R_callPrice(S, K, T, r, d1, d2) ==
  FSub(FMul(S, R_normCDF(d1)),
       FMul(FMul(K, Exp(FMul(FNeg(r), T))), R_normCDF(d2)))

\* reverse.js: return { premium: callPrice, d1: d1, d2: d2, Nd1: normCDF(d1),
\*                 Nd2: normCDF(d2), discountFactor: Math.exp(-r * T) }
R_return(S, K, T, r, d1, d2) ==
  [ret |-> [d1 |-> d1,
            d2 |-> d2,
            premium |-> R_callPrice(S, K, T, r, d1, d2),
            Nd1 |-> R_normCDF(d1),
            Nd2 |-> R_normCDF(d2),
            discountFactor |-> Exp(FMul(FNeg(r), T))],
   ops |-> NormalPathOps]

\* reverse.js: the statements of blackScholesCall after the guard: d1, then d2 from
\* it, then the rest from both.
R_fromD1(S, K, T, r, sigma, d1) ==
  R_return(S, K, T, r, d1, R_d2(d1, T, sigma))
R_normalPath(S, K, T, r, sigma) ==
  R_fromD1(S, K, T, r, sigma, R_d1(S, K, T, r, sigma))

\* reverse.js: blackScholesCall(S, K, T, r, sigma): if (T <= 0 || sigma <= 0)
\* return 0; then the normal path.
R_blackScholesCall(S, K, T, r, sigma) ==
  IF R_guard(T, sigma) THEN [ret |-> Zero, ops |-> <<>>]
  ELSE R_normalPath(S, K, T, r, sigma)

(***************************************************************************)
(* JavaScript values other than numbers, and the conversions the two       *)
(* components apply.                                                       *)
(***************************************************************************)
\* null (useState(null)).
Null == [k |-> "null", m |-> 0, e |-> 0]

\* Whether a returned value is an object (a record of fields) or a number.
IsObject(v) == "premium" \in DOMAIN v

\* v[f] in JavaScript: a number has no own fields, the read yields undefined.
Prop(v, f) == IF IsObject(v) THEN v[f] ELSE Undefined

\* !v: null, undefined, NaN and 0 are falsy, an object is not.
Falsy(v) == ~IsObject(v) /\ (v.k \in {"null", "undef", "nan"} \/ IsZero(v))

\* Calling a method (toFixed) on undefined or null throws a TypeError.
Throws(v) == v.k \in {"undef", "null"}

\* e.target.value, the text of an input element: the empty text, or the
\* decimal text of a number v.
Blank == [txt |-> "", v |-> NaN]
Text(v) == [txt |-> "number", v |-> v]

\* Number(text): the empty text converts to 0.
ToNumber(t) == IF t.txt = "" THEN Zero ELSE t.v

\* parseFloat(text): the empty text parses to NaN.
ParseFloat(t) == IF t.txt = "" THEN NaN ELSE t.v

\* a || 0: NaN and 0 are falsy.
OrZero(a) == IF IsNaN(a) \/ IsZero(a) THEN Zero ELSE a

\* Math.max(a, b).
MathMax(a, b) ==
  IF IsNaN(a) \/ IsNaN(b) THEN NaN ELSE IF FGt(b, a) THEN b ELSE a

\* Math.round(a): floor(a + 0.5); a value with no fractional bits is itself.
MathRound(a) ==
  IF IsFin(a) /\ a.e < 0 THEN Num(FloorInt(FAdd(a, Half))) ELSE a

\* Number(a.toFixed(2)): a rounded to hundredths, halves away from zero.  NaN
\* and the infinities print and parse as themselves; from 2^23 on the
\* significand holds no hundredths and the value is kept.
ToFixed2(a) ==
  IF ~IsFin(a) \/ a.e >= 0 \/ a.e + MANT > 23 THEN a
  ELSE FDiv(Num(Sign(a) * FloorInt(FAdd(FMul(FAbs(a), Num(100)), Half))),
            Num(100))

\* The five fields of the inputs object.
Fields == {"S", "K", "T", "r", "sigma"}


(***************************************************************************)
(* src/components/default.js: DefaultPage.                                 *)
(***************************************************************************)
\* useState({ S: 2500, K: 2400, T: 1, r: 0.05, sigma: 0.2 })
D_initial ==
  [S |-> Num(2500), K |-> Num(2400), T |-> Num(1), r |-> Dec(5, 2),
   sigma |-> Dec(2, 1)]

\* const result = useMemo(() => blackScholesCall(inputs.S, ...), [inputs])
D_result(inputs) ==
  D_blackScholesCall(inputs.S, inputs.K, inputs.T, inputs.r, inputs.sigma).ret

\* const points = 60
points == 60
\* The literals of chartData.
D_floor == Dec(1, 1)
D_low == Dec(5, 1)
D_high == Dec(15, 1)

\* const min = Math.max(0.1, inputs.S * 0.5)
D_min(inputs) == MathMax(D_floor, FMul(inputs.S, D_low))
\* const max = inputs.S * 1.5
D_max(inputs) == FMul(inputs.S, D_high)
\* const step = (max - min) / (points - 1)
D_step(inputs) == FDiv(FSub(D_max(inputs), D_min(inputs)), Num(points - 1))
\* const spot = min + i * step
D_spot(min, step, i) == FAdd(min, FMul(Num(i), step))

\* The arguments of chartData's pricer call for the sample spot.
D_args(inputs, spot) ==
  [S |-> spot, K |-> inputs.K, T |-> inputs.T, r |-> inputs.r,
   sigma |-> inputs.sigma]

\* data.push({ spot: Math.round(spot), premium: Number(p.premium.toFixed(2)) })
\* for p.premium read from the pricer's value; toFixed on undefined throws.
D_push(inputs, spot, premium) ==
  [threw |-> Throws(premium),
   args |-> D_args(inputs, spot),
   point |-> [spot |-> MathRound(spot), premium |-> ToFixed2(premium)]]

\* One iteration of chartData's loop: the pricer call on the sample, then the
\* push.
D_iteration(inputs, spot) ==
  D_push(inputs, spot,
         Prop(D_blackScholesCall(spot, inputs.K, inputs.T, inputs.r,
                                 inputs.sigma).ret, "premium"))

\* for (let i = 0; i < points; i++): iterations lo..hi in order, ended by the
\* first that throws.
RECURSIVE D_loop(_, _, _, _, _)
D_rest(inputs, min, step, mid, hi, done) ==
  IF done[Len(done)].threw THEN done
  ELSE done \o D_loop(inputs, min, step, mid + 1, hi)
D_loop(inputs, min, step, lo, hi) ==
  IF lo = hi THEN <<D_iteration(inputs, D_spot(min, step, lo))>>
  ELSE D_rest(inputs, min, step, (lo + hi) \div 2, hi,
              D_loop(inputs, min, step, lo, (lo + hi) \div 2))

\* What the iterations made leave: whether the memo threw, the array it
\* returned (none when it threw), and the arguments of the pricer calls made,
\* in order.
D_memo(done) ==
  [threw |-> done[Len(done)].threw,
   data |-> IF done[Len(done)].threw THEN <<>>
            ELSE [i \in 1..Len(done) |-> done[i].point],
   calls |-> [i \in 1..Len(done) |-> done[i].args]]

\* const chartData = useMemo(() => { ... }, [inputs])
D_chartData(inputs) ==
  D_memo(D_loop(inputs, D_min(inputs), D_step(inputs), 0, points - 1))

\* update(field, value): setInputs((s) => ({ ...s, [field]: value }))
D_setInputs(inputs, field, value) == [inputs EXCEPT ![field] = value]

(***************************************************************************)
(* src/components/reverse.js: BlackScholesCalculator.                      *)
(***************************************************************************)
\* useState({ S: 2500, K: 2500, T: 1, r: 0.07, sigma: 0.25 })
R_initial ==
  [S |-> Num(2500), K |-> Num(2500), T |-> Num(1), r |-> Dec(7, 2),
   sigma |-> Dec(25, 2)]

\* const steps = 50
steps == 50
\* The literals of ranges.
R_low == Dec(7, 1)
R_high == Dec(13, 1)
R_Tmin == Dec(1, 1)
R_Tmax == Num(2)
R_rmin == Dec(1, 2)
R_rmax == Dec(15, 2)
R_sigmamin == Dec(5, 2)
R_sigmamax == Dec(6, 1)

\* const ranges = { S: {...}, K: {...}, T: {...}, r: {...}, sigma: {...} }
\* (the labels of S and K without their currency sign).
R_ranges(inputs) ==
  [S |-> [min |-> FMul(inputs.S, R_low), max |-> FMul(inputs.S, R_high),
          label |-> "Stock Price"],
   K |-> [min |-> FMul(inputs.K, R_low), max |-> FMul(inputs.K, R_high),
          label |-> "Strike Price"],
   T |-> [min |-> R_Tmin, max |-> R_Tmax, label |-> "Time to Expiry (years)"],
   r |-> [min |-> R_rmin, max |-> R_rmax, label |-> "Risk-free Rate"],
   sigma |-> [min |-> R_sigmamin, max |-> R_sigmamax, label |-> "Volatility"]]

\* const stepSize = (range.max - range.min) / steps
R_stepSize(range) == FDiv(FSub(range.max, range.min), Num(steps))
\* const value = range.min + i * stepSize
R_value(range, stepSize, i) == FAdd(range.min, FMul(Num(i), stepSize))
\* A substitution that always writes the spot price: { ...inputs, S: value }.
R_testInputsSpot(inputs, sensitivityType, value) == [inputs EXCEPT !.S = value]

\* const testInputs = { ...inputs, [sensitivityType]: value }
R_testInputs(inputs, sensitivityType, value) ==
  [inputs EXCEPT ![sensitivityType] = value]

\* const res = blackScholesCall(testInputs.S, ...);
\* data.push({ x: value, premium: res.premium, label: range.label })
R_push(testInputs, value, label) ==
  [args |-> testInputs,
   point |-> [x |-> value,
              premium |-> Prop(R_blackScholesCall(testInputs.S, testInputs.K,
                                                  testInputs.T, testInputs.r,
                                                  testInputs.sigma).ret,
                               "premium"),
              label |-> label]]

\* One iteration of generateSensitivityData's loop for the sample value.
R_iteration(inputs, sensitivityType, label, value) ==
  R_push(R_testInputs(inputs, sensitivityType, value), value, label)

\* for (let i = 0; i <= steps; i++): iterations lo..hi in order.
RECURSIVE R_loop(_, _, _, _, _, _)
R_loop(inputs, sensitivityType, range, stepSize, lo, hi) ==
  IF lo = hi
  THEN <<R_iteration(inputs, sensitivityType, range.label,
                     R_value(range, stepSize, lo))>>
  ELSE R_loop(inputs, sensitivityType, range, stepSize, lo, (lo + hi) \div 2)
       \o R_loop(inputs, sensitivityType, range, stepSize,
                 (lo + hi) \div 2 + 1, hi)

\* What the iterations leave: the array handed to setSensitivityData, and the
\* arguments of the pricer calls made, in order.
R_collect(done) ==
  [data |-> [i \in 1..Len(done) |-> done[i].point],
   calls |-> [i \in 1..Len(done) |-> done[i].args]]

\* The sweep over const range = ranges[sensitivityType].
R_sweep(inputs, sensitivityType, range) ==
  R_collect(R_loop(inputs, sensitivityType, range, R_stepSize(range), 0, steps))

\* A sweep whose data array outlives the call (const data = [] hoisted out of
\* generateSensitivityData): every run appends to the points of the runs before.
R_appended(old, made) == [data |-> old \o made.data, calls |-> made.calls]
R_appending(inputs, sensitivityType) ==
  R_appended(r_sensitivityData,
             R_sweep(inputs, sensitivityType, R_ranges(inputs)[sensitivityType]))

\* generateSensitivityData()
R_generateSensitivityData(inputs, sensitivityType) ==
  R_sweep(inputs, sensitivityType, R_ranges(inputs)[sensitivityType])

\* handleInputChange(key, value):
\* setInputs((prev) => ({ ...prev, [key]: parseFloat(value) || 0 }))
R_setInputs(inputs, key, value) ==
  [inputs EXCEPT ![key] = OrZero(ParseFloat(value))]

\* No invocation, no value.
None == [fn |-> "none"]

\* The state of the parts a specification does not run.
NoPage ==
  /\ page = "none"
  /\ d_inputs = D_initial /\ d_result = Null /\ d_chartData = <<>>
  /\ d_calls = <<>> /\ d_crashed = FALSE
  /\ r_inputs = R_initial /\ r_result = Null /\ r_sensitivityData = <<>>
  /\ r_sensitivityType = "S" /\ r_calls = <<>> /\ r_dirty = FALSE
NoCalls == copy = "none" /\ first = None /\ last = None
NoCdf == cdf_x = Zero /\ cdf_out = None

(***************************************************************************)
(* The two calculators.                                                    *)
(***************************************************************************)
\* The JSX of DefaultPage reads result.premium.toFixed,
\* result.discountFactor.toFixed, result.Nd1.toFixed and result.Nd2.toFixed.
D_renderThrows(result) ==
  \E f \in {"premium", "discountFactor", "Nd1", "Nd2"} : Throws(Prop(result, f))

\* The texts a user enters in DefaultPage's sliders and number fields: a
\* number field takes any decimal and can be emptied.
D_texts ==
  [S |-> {Text(Num(2500)), Text(Zero), Text(Num(-100))},
   K |-> {Text(Num(2400)), Text(Num(2000))},
   T |-> {Text(Num(1)), Blank},
   r |-> {Text(Dec(5, 2))},
   sigma |-> {Text(Dec(2, 1)), Text(Zero)}]

\* The values of BlackScholesCalculator's range sliders used.
R_texts ==
  [S |-> {Text(Num(2500)), Text(Num(3000))},
   K |-> {Text(Num(2500))},
   T |-> {Text(Num(1))},
   r |-> {Text(Dec(7, 2))},
   sigma |-> {Text(Dec(25, 2))}]

\* default.js: what a render of DefaultPage leaves: the state it rendered, the
\* two memos, and whether it threw a TypeError (in chartData or in the JSX).
D_rendered(inputs, result, chartData) ==
  /\ d_inputs = inputs
  /\ d_result = result
  /\ d_chartData = chartData.data
  /\ d_calls = chartData.calls
  /\ d_crashed = (chartData.threw \/ D_renderThrows(result))

\* The first render of the mounted component; reverse.js's effect is due
\* after it.
Init ==
  /\ page \in {"default", "reverse"}
  /\ IF page = "default"
     THEN D_rendered(D_initial, D_result(D_initial), D_chartData(D_initial))
     ELSE /\ d_inputs = D_initial /\ d_result = Null /\ d_chartData = <<>>
          /\ d_calls = <<>> /\ d_crashed = FALSE
  /\ r_inputs = R_initial
  /\ r_result = Null
  /\ r_sensitivityData = <<>>
  /\ r_sensitivityType = "S"
  /\ r_calls = <<>>
  /\ r_dirty = (page = "reverse")
  /\ NoCalls
  /\ NoCdf

\* default.js: the render that a setInputs causes: both memos recompute, then
\* the JSX reads the result.  A TypeError in the render takes the page down.
D_render(inputs, result, chartData) ==
  /\ d_inputs' = inputs
  /\ d_result' = result
  /\ d_chartData' = chartData.data
  /\ d_calls' = chartData.calls
  /\ d_crashed' = (chartData.threw \/ D_renderThrows(result))
D_setState(inputs) == D_render(inputs, D_result(inputs), D_chartData(inputs))

\* default.js: onChange={(e) => update(field, Number(e.target.value))}
D_update(field, text) ==
  /\ page = "default"
  /\ ~d_crashed
  /\ D_setState(D_setInputs(d_inputs, field, ToNumber(text)))
  /\ UNCHANGED <<page, r_inputs, r_result, r_sensitivityData,
                 r_sensitivityType, r_calls, r_dirty>>
  /\ UNCHANGED <<callVars, cdfVars>>

\* reverse.js: onChange={(e) => handleInputChange(key, e.target.value)}; the
\* sliders are rendered once result is truthy.
R_handleInputChange(key, value) ==
  /\ page = "reverse"
  /\ ~Falsy(r_result)
  /\ r_inputs' = R_setInputs(r_inputs, key, value)
  /\ r_dirty' = TRUE
  /\ UNCHANGED <<page, d_inputs, d_result, d_chartData, d_calls, d_crashed,
                 r_result, r_sensitivityData, r_sensitivityType, r_calls>>
  /\ UNCHANGED <<callVars, cdfVars>>

\* A type change that makes no effect due: the dependency array without
\* sensitivityType, useEffect(..., [inputs]).
R_setSensitivityTypeOnly(type) ==
  /\ page = "reverse"
  /\ ~Falsy(r_result)
  /\ r_sensitivityType' = type
  /\ UNCHANGED <<page, d_inputs, d_result, d_chartData, d_calls, d_crashed,
                 r_inputs, r_result, r_sensitivityData, r_calls, r_dirty>>
  /\ UNCHANGED <<callVars, cdfVars>>

\* reverse.js: onChange={(e) => setSensitivityType(e.target.value)}; setting
\* the state to the value it has causes no render and no effect.
R_setSensitivityType(type) ==
  /\ page = "reverse"
  /\ ~Falsy(r_result)
  /\ r_sensitivityType' = type
  /\ r_dirty' = (r_dirty \/ type # r_sensitivityType)
  /\ UNCHANGED <<page, d_inputs, d_result, d_chartData, d_calls, d_crashed,
                 r_inputs, r_result, r_sensitivityData, r_calls>>
  /\ UNCHANGED <<callVars, cdfVars>>

\* reverse.js: the useEffect on [inputs, sensitivityType]: setResult(res), then
\* generateSensitivityData() and its setSensitivityData(data).
R_func(res, gen) ==
  /\ r_result' = res
  /\ r_sensitivityData' = gen.data
  /\ r_calls' = gen.calls
R_effect ==
  /\ page = "reverse"
  /\ r_dirty
  /\ R_func(R_blackScholesCall(r_inputs.S, r_inputs.K, r_inputs.T,
                               r_inputs.r, r_inputs.sigma).ret,
            R_generateSensitivityData(r_inputs, r_sensitivityType))
  /\ r_dirty' = FALSE
  /\ UNCHANGED <<page, d_inputs, d_result, d_chartData, d_calls, d_crashed,
                 r_inputs, r_sensitivityType>>
  /\ UNCHANGED <<callVars, cdfVars>>

Next ==
  \/ \E field \in Fields : \E text \in D_texts[field] : D_update(field, text)
  \/ \E key \in Fields : \E value \in R_texts[key] :
       R_handleInputChange(key, value)
  \/ \E type \in Fields : R_setSensitivityType(type)
  \/ R_effect

Spec == Init /\ [][Next]_vars

\* The step that runs the effect that is due: R_effect is the one action that
\* clears r_dirty, and it is enabled whenever r_dirty holds on the page.
R_effectRuns == page = "reverse" /\ r_dirty /\ r_dirty' = FALSE

\* React runs the effect of every render it commits: an effect that is due
\* does not stay due forever.
SpecFair == Spec /\ WF_r_dirty(R_effectRuns)

(***************************************************************************)
(* The pricer on its own: a run of invocations of one file's               *)
(* blackScholesCall, of which the first and the latest are kept.           *)
(***************************************************************************)
\* The arguments invocations are made with: prices below, at and above zero,
\* two spots either side of the strike, expiries and volatilities below, at
\* and above zero.
PricerArgs ==
  [S : {Num(-100), Dec(24999999, 4), Dec(25000001, 4)},
   K : {Zero, Num(2500)},
   T : {Num(-1), Zero, Num(1)},
   r : {Dec(2, 2)},
   sigma : {Zero, Dec(2, 1)}]

\* An invocation: its arguments, the value returned and the operations
\* evaluated.
Invocation(args, out) ==
  [fn |-> "blackScholesCall", args |-> args, ret |-> out.ret, ops |-> out.ops]

\* The invocation is kept as the first of the run, or as the latest after it.
Keep(inv) ==
  IF first = None THEN first' = inv /\ last' = last
  ELSE first' = first /\ last' = inv

InitPricer ==
  /\ NoPage
  /\ NoCdf
  /\ copy \in {"default", "reverse"}
  /\ first = None
  /\ last = None

\* default.js: blackScholesCall(S, K, T, r, sigma)
D_invoke(args) ==
  /\ copy = "default"
  /\ Keep(Invocation(args, D_blackScholesCall(args.S, args.K, args.T, args.r,
                                              args.sigma)))
  /\ UNCHANGED <<copy, uiVars, cdfVars>>

\* reverse.js: blackScholesCall(S, K, T, r, sigma)
R_invoke(args) ==
  /\ copy = "reverse"
  /\ Keep(Invocation(args, R_blackScholesCall(args.S, args.K, args.T, args.r,
                                              args.sigma)))
  /\ UNCHANGED <<copy, uiVars, cdfVars>>

NextPricer ==
  \/ \E args \in PricerArgs : D_invoke(args)
  \/ \E args \in PricerArgs : R_invoke(args)

SpecPricer == InitPricer /\ [][NextPricer]_vars

(***************************************************************************)
(* normCDF on its own, applied at x and at -x.                             *)
(***************************************************************************)
\* The grid of arguments: the multiples of 1/8 in [-6, 6].
CdfGrid == {FDiv(Num(n), Num(8)) : n \in -48..48}

InitCdf ==
  /\ NoPage
  /\ NoCalls
  /\ cdf_x \in CdfGrid
  /\ cdf_out = None

\* What normCDF yields at x and at -x, with the tail values it computed.
Applied(file, at, neg, prob, probNeg) ==
  [fn |-> "normCDF", file |-> file, at |-> at, neg |-> neg, prob |-> prob,
   probNeg |-> probNeg]

\* default.js: normCDF(x) and normCDF(-x)
D_apply ==
  /\ cdf_out = None
  /\ cdf_out' = Applied("default", D_normCDF(cdf_x), D_normCDF(FNeg(cdf_x)),
                        D_prob(cdf_x), D_prob(FNeg(cdf_x)))
  /\ UNCHANGED <<cdf_x, uiVars, callVars>>

\* reverse.js: normCDF(x) and normCDF(-x)
R_apply ==
  /\ cdf_out = None
  /\ cdf_out' = Applied("reverse", R_normCDF(cdf_x), R_normCDF(FNeg(cdf_x)),
                        R_p(cdf_x), R_p(FNeg(cdf_x)))
  /\ UNCHANGED <<cdf_x, uiVars, callVars>>

NextCdf == D_apply \/ R_apply

SpecCdf == InitCdf /\ [][NextCdf]_vars

(***************************************************************************)
(* The two files side by side: each file's blackScholesCall, or each       *)
(* file's normCDF, invoked once; first keeps default.js's invocation and   *)
(* last keeps reverse.js's.                                                *)
(***************************************************************************)
\* The arguments of blackScholesCall: a price below zero and ordinary ones,
\* an expiry and a volatility at zero, an ordinary volatility, and the
\* volatility 2^512, whose square is 2^1024.
BothArgs ==
  [S : {Num(-100), Num(2500)},
   K : {Num(2400), Num(2500)},
   T : {Zero, Num(1)},
   r : {Dec(5, 2)},
   sigma : {Zero, Dec(2, 1), Fl(1, 512)}]

\* The arguments of normCDF: the multiples of 1/2 in [-6, 6].
BothGrid == {FDiv(Num(n), Num(2)) : n \in -12..12}

\* An invocation of normCDF: its argument and the value returned.
Application(x, value) == [fn |-> "normCDF", args |-> x, ret |-> value]

InitBoth ==
  /\ NoPage
  /\ NoCdf
  /\ copy = "both"
  /\ first = None
  /\ last = None

\* default.js: blackScholesCall(S, K, T, r, sigma)
D_price(args) ==
  /\ copy = "both"
  /\ first = None
  /\ first' = Invocation(args, D_blackScholesCall(args.S, args.K, args.T,
                                                  args.r, args.sigma))
  /\ UNCHANGED <<copy, last, uiVars, cdfVars>>

\* reverse.js: blackScholesCall(S, K, T, r, sigma)
R_price(args) ==
  /\ copy = "both"
  /\ last = None
  /\ last' = Invocation(args, R_blackScholesCall(args.S, args.K, args.T,
                                                 args.r, args.sigma))
  /\ UNCHANGED <<copy, first, uiVars, cdfVars>>

\* default.js: normCDF(x)
D_cdf(x) ==
  /\ copy = "both"
  /\ first = None
  /\ first' = Application(x, D_normCDF(x))
  /\ UNCHANGED <<copy, last, uiVars, cdfVars>>

\* reverse.js: normCDF(x)
R_cdf(x) ==
  /\ copy = "both"
  /\ last = None
  /\ last' = Application(x, R_normCDF(x))
  /\ UNCHANGED <<copy, first, uiVars, cdfVars>>

NextBoth ==
  \/ \E args \in BothArgs : D_price(args)
  \/ \E args \in BothArgs : R_price(args)
  \/ \E x \in BothGrid : D_cdf(x)
  \/ \E x \in BothGrid : R_cdf(x)

SpecBoth == InitBoth /\ [][NextBoth]_vars

(***************************************************************************)
(* Properties of the pricer (SpecPricer).                                  *)
(***************************************************************************)
\* The invocations kept.
Invocations == {first, last} \ {None}

\* The six fields of the record the pricer returns.
SixFields == {"premium", "d1", "d2", "Nd1", "Nd2", "discountFactor"}

\* T <= 0 or sigma <= 0 in an invocation's arguments.
Degenerate(inv) == FLe(inv.args.T, Zero) \/ FLe(inv.args.sigma, Zero)

\* C1: whenever T <= 0 or sigma <= 0, reading the premium of the value
\* blackScholesCall returned yields the number 0, in both files.
C1_DegeneratePremiumIsZero ==
  \A inv \in Invocations :
    Degenerate(inv) => Prop(inv.ret, "premium") = Zero

\* C2: whenever T > 0 and sigma > 0, blackScholesCall returns a record whose
\* six fields all hold a number, and its premium is S * Nd1 - K *
\* discountFactor * Nd2 computed from the Nd1, Nd2 and discountFactor of the
\* same record (NaN counting as equal to NaN).
C2_PremiumFromFields ==
  \A inv \in Invocations :
    ~Degenerate(inv) =>
      /\ DOMAIN inv.ret = SixFields
      /\ \A f \in SixFields : inv.ret[f].k \in {"fin", "inf", "nan"}
      /\ inv.ret.premium =
           FSub(FMul(inv.args.S, inv.ret.Nd1),
                FMul(FMul(inv.args.K, inv.ret.discountFactor), inv.ret.Nd2))

\* C2's case: a normal-path invocation with positive prices was made and
\* returned a positive finite premium with a discount factor below 1.
C2_Witness ==
  /\ first # None
  /\ ~Degenerate(first)
  /\ FGt(first.args.S, Zero) /\ FGt(first.args.K, Zero)
  /\ IsObject(first.ret)
  /\ IsFin(first.ret.premium) /\ FGt(first.ret.premium, Zero)
  /\ FLt(first.ret.discountFactor, One)

\* C8: of two invocations with the same K, T, r and sigma, T > 0 and
\* sigma > 0, and positive prices, the one with the larger S returns a premium
\* that is not smaller.
C8_PremiumMonotoneInS ==
  (/\ first # None /\ last # None
   /\ ~Degenerate(first)
   /\ [first.args EXCEPT !.S = Zero] = [last.args EXCEPT !.S = Zero]
   /\ FGt(first.args.S, Zero) /\ FGt(first.args.K, Zero)
   /\ FLe(first.args.S, last.args.S))
  => FLe(first.ret.premium, last.ret.premium)

\* C9: whenever T <= 0 or sigma <= 0, blackScholesCall returns having
\* evaluated no logarithm, square root, division or normCDF; whenever it
\* evaluated any of them, T > 0 and sigma > 0.
C9_GuardComesFirst ==
  \A inv \in Invocations :
    /\ Degenerate(inv) => inv.ops = <<>>
    /\ inv.ops # <<>> =>
         FGt(inv.args.T, Zero) /\ FGt(inv.args.sigma, Zero)

\* C9's case: an invocation with T <= 0 or sigma <= 0 returned without
\* evaluating anything, and one with T > 0 and sigma > 0 evaluated the
\* normal path.
C9_Witness ==
  /\ first # None /\ last # None
  /\ Degenerate(first) /\ first.ops = <<>>
  /\ ~Degenerate(last) /\ last.ops = NormalPathOps

\* C10: blackScholesCall returns the number 0 exactly when T <= 0 or
\* sigma <= 0; with T > 0 and sigma > 0 it returns the six-field record, also
\* for S <= 0 or K <= 0.
C10_PricesUnguarded ==
  \A inv \in Invocations :
    /\ Degenerate(inv) <=> inv.ret = Zero
    /\ ~Degenerate(inv) => IsObject(inv.ret) /\ DOMAIN inv.ret = SixFields

\* C10's case: invocations with T > 0 and sigma > 0 were made with S <= 0,
\* returning a record whose premium is NaN, and with K <= 0, returning a
\* record whose d1 is infinite.
C10_Witness ==
  /\ first # None /\ last # None
  /\ ~Degenerate(first) /\ FLe(first.args.S, Zero)
  /\ IsObject(first.ret) /\ IsNaN(first.ret.premium)
  /\ ~Degenerate(last) /\ FGt(last.args.S, Zero) /\ FLe(last.args.K, Zero)
  /\ IsObject(last.ret) /\ IsInf(last.ret.d1)

(***************************************************************************)
(* Properties of normCDF (SpecCdf).                                        *)
(***************************************************************************)
\* The tolerance of the symmetry, 1e-6.
SymmetryTol == Dec(1, 6)

\* C7: for x on the grid in [-6, 6], normCDF(-x) is within 1e-6 of
\* 1 - normCDF(x); normCDF(x) is 1 - prob for x > 0 and prob for x <= 0, and
\* prob is the same value for x and -x.
C7_Symmetry ==
  cdf_out # None =>
    /\ FLe(FAbs(FSub(cdf_out.neg, FSub(One, cdf_out.at))), SymmetryTol)
    /\ cdf_out.at = IF FGt(cdf_x, Zero) THEN FSub(One, cdf_out.prob)
                    ELSE cdf_out.prob
    /\ cdf_out.prob = cdf_out.probNeg

\* C7's case: normCDF was applied at a negative x, where it returned prob
\* while at -x it returned 1 - prob.
C7_Witness ==
  /\ cdf_out # None
  /\ FLt(cdf_x, Zero)
  /\ cdf_out.at = cdf_out.prob
  /\ cdf_out.neg = FSub(One, cdf_out.prob)
  /\ FGt(cdf_out.prob, Zero)

(***************************************************************************)
(* Properties of the two calculators (Spec).                               *)
(***************************************************************************)
\* DefaultPage is mounted and has rendered without throwing.
D_shown == page = "default" /\ ~d_crashed

\* BlackScholesCalculator is mounted and its effect has run for the inputs and
\* the field it holds.
R_swept == page = "reverse" /\ ~r_dirty

\* The relative tolerance of sample positions, 1e-6.
SampleTol == Dec(1, 6)

\* a and b differ by at most 1e-6 of the range's scale 1 + |min| + |max|.
Near(a, b, min, max) ==
  FLe(FAbs(FSub(a, b)), FMul(SampleTol, FAdd(One, FAdd(FAbs(min), FAbs(max)))))

\* The n samples xs run from min to max, evenly spaced by step, in ascending
\* order.
EvenAscending(xs, n, min, max, step) ==
  /\ Len(xs) = n
  /\ xs[1] = min
  /\ Near(xs[n], max, min, max)
  /\ \A i \in 1..(n - 1) :
       /\ Near(FSub(xs[i + 1], xs[i]), step, min, max)
       /\ FLe(xs[i], xs[i + 1])

\* The values xs recorded along the points do not decrease.
Ascending(xs) == \A i \in 1..(Len(xs) - 1) : FLe(xs[i], xs[i + 1])

\* C3: every sweep that completed has steps + 1 points (51 in reverse.js, 60
\* in default.js), the first sample min, the last max, consecutive samples
\* (max - min) / steps apart, and the recorded x values ascending.
C3_SweepsEvenAscending ==
  /\ D_shown =>
       /\ Len(d_chartData) = points
       /\ EvenAscending([i \in 1..Len(d_calls) |-> d_calls[i].S], points,
                        D_min(d_inputs), D_max(d_inputs), D_step(d_inputs))
       /\ Ascending([i \in 1..Len(d_chartData) |-> d_chartData[i].spot])
  /\ R_swept =>
       /\ Len(r_sensitivityData) = steps + 1
       /\ EvenAscending(
            [i \in 1..Len(r_sensitivityData) |-> r_sensitivityData[i].x],
            steps + 1,
            R_ranges(r_inputs)[r_sensitivityType].min,
            R_ranges(r_inputs)[r_sensitivityType].max,
            R_stepSize(R_ranges(r_inputs)[r_sensitivityType]))

\* C4: no render, pricing or sweep throws, and each calculator keeps showing
\* a result: DefaultPage's render can read the four fields it prints, and
\* BlackScholesCalculator holds a truthy result once its effect has run.
C4_NothingFatal ==
  /\ ~d_crashed
  /\ page = "default" => ~D_renderThrows(d_result)
  /\ R_swept => ~Falsy(r_result)

C6_SweepArguments ==
  /\ page = "default" =>
       /\ \A i \in 1..Len(d_calls) :
            d_calls[i] = [d_inputs EXCEPT !.S = d_calls[i].S]
       /\ ~d_crashed =>
            /\ Len(d_calls) = points
            /\ \A i \in 1..points :
                 d_chartData[i].spot = MathRound(d_calls[i].S)
  /\ R_swept =>
       /\ Len(r_calls) = steps + 1
       /\ \A i \in 1..(steps + 1) :
            r_calls[i] =
              [r_inputs EXCEPT ![r_sensitivityType] = r_sensitivityData[i].x]

\* C6's case: sweeps over fields other than S finished: the strike of the
\* calls varies while their spot price is the base inputs'.
C6_Witness ==
  /\ R_swept
  /\ r_sensitivityType = "K"
  /\ Len(r_calls) = steps + 1
  /\ r_calls[1].K # r_inputs.K
  /\ r_calls[steps + 1].K # r_calls[1].K
  /\ \A i \in 1..(steps + 1) : r_calls[i].S = r_inputs.S

(***************************************************************************)
(* Properties of the two files side by side (SpecBoth).                    *)
(***************************************************************************)
\* C11: invoked with the same arguments, blackScholesCall of default.js and
\* of reverse.js take the same branch and return the same value (the number
\* 0, or records equal in all six fields), and normCDF of the two files
\* returns the same value.
C11_CopiesEquivalent ==
  (/\ first # None /\ last # None
   /\ first.fn = last.fn
   /\ first.args = last.args)
  => first = last

(***************************************************************************)
(* Properties of BlackScholesCalculator's effect (SpecFair).               *)
(***************************************************************************)
\* The stored result and sweep are those of the inputs and the field held.
R_fresh ==
  /\ r_result = R_blackScholesCall(r_inputs.S, r_inputs.K, r_inputs.T,
                                   r_inputs.r, r_inputs.sigma).ret
  /\ r_sensitivityData = R_sweep(r_inputs, r_sensitivityType,
                                 R_ranges(r_inputs)[r_sensitivityType]).data
  /\ \A i \in 1..Len(r_sensitivityData) :
       r_sensitivityData[i].label = R_ranges(r_inputs)[r_sensitivityType].label

\* C12: in reverse.js, whenever no effect is due the stored result is
\* blackScholesCall of the current inputs and the stored sensitivityData is
\* the sweep of the current inputs over the selected field; and whenever an
\* effect is due it runs, so that stale data is never what the calculator
\* ends with.
C12_FreshOnceEffectRan ==
  /\ [](R_swept => R_fresh)
  /\ (page = "reverse" /\ r_dirty) ~> R_swept

\* C12's case: after a spot price change and a change of the swept field the
\* effect has run: the result is that of the new spot price and the sweep is
\* over the strike.
C12_Witness ==
  /\ R_swept
  /\ r_inputs.S = Num(3000)
  /\ r_inputs # R_initial
  /\ r_sensitivityType = "K"
  /\ Len(r_sensitivityData) = steps + 1
  /\ r_sensitivityData[1].label = "Strike Price"
  /\ r_sensitivityData[1].x = FMul(r_inputs.K, R_low)
  /\ FGt(r_result.premium, Num(500))

=============================================================================
